---- MODULE Spec2Model ----
(***************************************************************************)
(* A model of the BM-segmenter project edition library:                    *)
(*   src/bms_project_edition/project.py  (ProjectElement, Project)         *)
(*   src/project.py                      (older variant, add_ml_predictions)*)
(*   src/bms_project_edition/ml.py       (prediction run)                  *)
(*   src/surfaces.py                     (measurement report)              *)
(*                                                                         *)
(* The project directory is the state: dataset.toml (files, groups), the   *)
(* image directories data/dicoms/<case>, the mask archives                 *)
(* data/masks/<mask>/<case>.npz, and the in-memory ProjectElement objects. *)
(***************************************************************************)
EXTENDS Integers, Sequences, FiniteSets, TLC

(***************************************************************************)
(* Bounds of the model.                                                    *)
(***************************************************************************)
\* number of case names that exist at all (a prefix of AllNames)
PoolSize == 3
\* number of cases the project holds initially in the rename specification
InitCases == 2
\* number of operations one behaviour calls
MaxCalls == 2
\* number of pixels of a matrix
MatrixSize == 1
\* longest manifest the sorting specification starts from
MaxFiles == 3
\* number of prediction runs of one behaviour
MaxRuns == 1

(***************************************************************************)
(* Case names are Python strings: sequences of characters.                 *)
(***************************************************************************)
Chars == {"1", "2", "3", "5", "_", "a", "b"}

\* code points, the order Python compares str by
Ord(c) ==
    CASE c = "1" -> 49 [] c = "2" -> 50 [] c = "3" -> 51 [] c = "5" -> 53
      [] c = "_" -> 95 [] c = "a" -> 97 [] c = "b" -> 98

AllNames ==
    << <<"5", "_", "_", "_", "a">>,
       <<"1", "2", "_", "_", "_", "b">>,
       <<"3">>,
       <<"5", "_", "_", "_", "b">>,
       <<"1", "2">> >>

Min(a, b) == IF a < b THEN a ELSE b

NamePool == {AllNames[i] : i \in 1..Min(PoolSize, Len(AllNames))}

SortPool == {AllNames[i] : i \in 1..Len(AllNames)}

Range(s) == {s[i] : i \in 1..Len(s)}

\* the number of times x occurs in the list s
Count(s, x) == Cardinality({i \in 1..Len(s) : s[i] = x})

SeqsNoDup(S, k) == {s \in [1..k -> S] : \A i, j \in 1..k : i # j => s[i] # s[j]}

(***************************************************************************)
(* str.split('___')[0]: the substring before the first '___', the whole    *)
(* string when there is none.                                              *)
(***************************************************************************)
SepAt(name, i) ==
    /\ i + 2 <= Len(name)
    /\ name[i] = "_" /\ name[i + 1] = "_" /\ name[i + 2] = "_"

name_prefix(name) ==
    LET hits == {i \in 1..Len(name) : SepAt(name, i)}
    IN  IF hits = {} THEN name
        ELSE LET first == CHOOSE i \in hits : \A j \in hits : i <= j
             IN  SubSeq(name, 1, first - 1)

\* Python's str <: lexicographic by code point, a proper prefix is smaller
RECURSIVE StrLess(_, _)
StrLess(s, t) ==
    IF t = <<>> THEN FALSE
    ELSE IF s = <<>> THEN TRUE
    ELSE IF Ord(Head(s)) < Ord(Head(t)) THEN TRUE
    ELSE IF Ord(Head(s)) > Ord(Head(t)) THEN FALSE
    ELSE StrLess(Tail(s), Tail(t))

\* a mutant of sorting_key: the prefix alone, without its length
sorting_key_prefix_only(name) == <<0, name_prefix(name)>>

\* sorting_key of Project.elements: (len(prefix), prefix)
sorting_key(name) == <<Len(name_prefix(name)), name_prefix(name)>>

\* Python's tuple <
KeyLess(k1, k2) == k1[1] < k2[1] \/ (k1[1] = k2[1] /\ StrLess(k1[2], k2[2]))

\* sorted(result, key=sorting_key): a stable sort; x goes after every
\* element whose key is not greater than its own
RECURSIVE InsertByKey(_, _)
InsertByKey(sorted, x) ==
    IF sorted = <<>> THEN <<x>>
    ELSE IF KeyLess(sorting_key(x), sorting_key(Head(sorted)))
         THEN <<x>> \o sorted
         ELSE <<Head(sorted)>> \o InsertByKey(Tail(sorted), x)

RECURSIVE SortedByKey(_)
SortedByKey(s) ==
    IF s = <<>> THEN <<>>
    ELSE InsertByKey(SortedByKey(SubSeq(s, 1, Len(s) - 1)), s[Len(s)])

\* Project.elements(): one ProjectElement per name of files, in display order
\* (an element is represented by its name)
elements(fs) == SortedByKey(fs)


(***************************************************************************)
(* Matrices and mask archives.                                             *)
(*                                                                         *)
(* A matrix is its sequence of pixel values.  A mask archive               *)
(* <mask>/<case>.npz is the dict np.load returns: a function from the keys *)
(* it holds (a subset of Fields) to their values.  The empty sequence is   *)
(* the array of shape () the software stores as "current" when the         *)
(* predicted mask was validated unchanged.                                 *)
(***************************************************************************)
Fields == {"predicted", "current", "validated", "users"}

\* the pixel values an archive written as uint8 holds
StoredPixels == {0, 1}

\* the pixel values of a matrix handed to set_predicted_mask
WrittenPixels == {0, 1, 256}

StoredMatrices == [1..MatrixSize -> StoredPixels]

WrittenMatrices == [1..MatrixSize -> WrittenPixels]

EmptyShape == <<>>

Zeros == [i \in 1..MatrixSize |-> 0]

Ones == [i \in 1..MatrixSize |-> 1]

\* ndarray.astype(np.uint8): every value is reduced modulo 2^8
astype_uint8(matrix) == [i \in DOMAIN matrix |-> matrix[i] % 256]

\* np.array_equal on matrices of pixel values
array_equal(m1, m2) == m1 = m2

\* an optional value is a set of at most one element
Opt(S) == {{}} \cup {{x} : x \in S}

The(o) == CHOOSE x \in o : TRUE

MakeRecord(p, c, v, u) ==
    [k \in {f \in Fields : \/ f = "predicted" /\ p # {}
                           \/ f = "current" /\ c # {}
                           \/ f = "validated" /\ v # {}
                           \/ f = "users" /\ u # {}} |->
        CASE k = "predicted" -> The(p)
          [] k = "current" -> The(c)
          [] k = "validated" -> The(v)
          [] k = "users" -> The(u)]

\* every archive content the software may have left on disk
AllRecords ==
    {MakeRecord(p, c, v, u) :
        p \in Opt(StoredMatrices),
        c \in Opt(StoredMatrices \cup {EmptyShape}),
        v \in Opt(StoredMatrices),
        u \in Opt({<<>>, <<"u1">>})}

\* a case that was predicted but not reviewed, and one that was validated
RecPredicted == MakeRecord({Ones}, {}, {}, {})

RecValidated == MakeRecord({Zeros}, {EmptyShape}, {Zeros}, {<<"u1">>})

MaskNames == {"muscle", "fat"}

Handles == {1, 2}

Platforms == {"posix", "nt"}

VARIABLES
    platform,   \* the operating system the program runs on
    files,      \* dataset.toml: "files", the list of case names
    groups,     \* dataset.toml: "groups", the lists of the groups in file order
    dicoms,     \* data/dicoms: existing image directory name -> its content
    masks,      \* data/masks: existing <<mask, case>> archive -> its dict
    elName,     \* ProjectElement.name of each element object held by the caller
    pc,         \* the position of the running rename, "idle" when none runs
    frame,      \* the locals of the running rename
    calls,      \* number of operations called so far
    last,       \* what the last operation called was and what it did
    prev,       \* the rename called right before the last one, if any
    clean,      \* no rename has failed so far
    groups0     \* the groups of the project as first opened

vars == <<platform, files, groups, dicoms, masks, elName, pc, frame, calls,
          last, prev, clean, groups0>>

NoName == <<>>

NoFrame == [self |-> 0, new_name |-> NoName, todo |-> {}]

NoOp == [op |-> "none"]

Snapshot == [files |-> files, groups |-> groups, dicoms |-> dicoms,
             masks |-> masks, elName |-> elName]

(***************************************************************************)
(* Path operations.                                                        *)
(***************************************************************************)
\* Path.exists of mask_file_path
mask_file_exists(mask_name, name) == <<mask_name, name>> \in DOMAIN masks

\* a directory or file tree d with the entry at src moved to dst
Moved(d, src, dst) ==
    [p \in (DOMAIN d \ {src}) \cup {dst} |-> IF p = dst THEN d[src] ELSE d[p]]

\* list.remove(x): the list without the first occurrence of x
Remove(s, x) ==
    LET first == CHOOSE i \in 1..Len(s) : s[i] = x /\ \A j \in 1..(i - 1) : s[j] # x
    IN  SubSeq(s, 1, first - 1) \o SubSeq(s, first + 1, Len(s))

\* a mutant of renamed_element_names: the old name is not removed
renamed_element_names_keep_old(names, old_name, new_name) ==
    Append(names, new_name)

\* ProjectElement.rename: project_element_names after remove and append
renamed_element_names(names, old_name, new_name) ==
    Append(Remove(names, old_name), new_name)

\* a mutant of set_dataset_file_element_names: "files" alone is rewritten
set_dataset_file_files_only(gs, element_names) == gs

\* Project.set_dataset_file_element_names: the groups after the first group
\* has been set to element_names ("files" is set to element_names as well)
set_dataset_file_element_names(gs, element_names) ==
    [gs EXCEPT ![1] = element_names]


(***************************************************************************)
(* ProjectElement.rename, one action per file-system operation.  The       *)
(* program is single-threaded: while a rename runs (pc # "idle") nothing   *)
(* else does.  A file-system operation either takes effect or raises and   *)
(* changes nothing; io_error is an error of the environment (permissions,  *)
(* a full or failing disk) that any such operation may meet.  An exception *)
(* leaves rename at once: the steps after it do not run.                   *)
(***************************************************************************)
RenameCall(h, new_name, outcome, step, exc) ==
    [op |-> "rename", self |-> h, old |-> elName[h], new |-> new_name,
     pre |-> Snapshot, outcome |-> outcome, step |-> step, exc |-> exc]

Raise(step, exc) ==
    /\ pc' = "idle"
    /\ frame' = NoFrame
    /\ last' = [last EXCEPT !.outcome = "raised", !.step = step, !.exc = exc]
    /\ clean' = FALSE

\* a mutant of rename_image_directory: the image directory is not moved
\* before the mask archives are
rename_image_directory_skipped(h, new_name) ==
    /\ pc = "idle"
    /\ calls < MaxCalls
    /\ elName[h] # NoName
    /\ elName[h] \in DOMAIN dicoms
    /\ calls' = calls + 1
    /\ prev' = IF last.op = "rename" THEN last ELSE NoOp
    /\ last' = RenameCall(h, new_name, "running", 1, "")
    /\ pc' = "masks"
    /\ frame' = [self |-> h, new_name |-> new_name, todo |-> MaskNames]
    /\ UNCHANGED <<platform, files, groups, dicoms, masks, elName, clean, groups0>>

\* a mutant of rename_image_directory: a missing source directory whose
\* target exists is taken as already moved
rename_image_directory_resuming(h, new_name) ==
    /\ pc = "idle"
    /\ calls < MaxCalls
    /\ elName[h] # NoName
    /\ calls' = calls + 1
    /\ prev' = IF last.op = "rename" THEN last ELSE NoOp
    /\ LET old_name == elName[h] IN
        IF old_name \notin DOMAIN dicoms /\ new_name \notin DOMAIN dicoms
        THEN /\ last' = RenameCall(h, new_name, "raised", 1, "FileNotFoundError")
             /\ clean' = FALSE
             /\ UNCHANGED <<dicoms, pc, frame>>
        ELSE /\ last' = RenameCall(h, new_name, "running", 1, "")
             /\ dicoms' = IF old_name \in DOMAIN dicoms /\ new_name \notin DOMAIN dicoms
                          THEN Moved(dicoms, old_name, new_name) ELSE dicoms
             /\ pc' = "masks"
             /\ frame' = [self |-> h, new_name |-> new_name, todo |-> MaskNames]
             /\ UNCHANGED clean
    /\ UNCHANGED <<platform, files, groups, masks, elName, groups0>>

\* rename, lines 160-161: image_directory_path.rename(with_name(new_name))
rename_image_directory(h, new_name) ==
    /\ pc = "idle"
    /\ calls < MaxCalls
    /\ elName[h] # NoName
    /\ calls' = calls + 1
    /\ prev' = IF last.op = "rename" THEN last ELSE NoOp
    /\ LET old_name == elName[h] IN
       \E io_error \in BOOLEAN :
        IF old_name \notin DOMAIN dicoms
        THEN \* the source directory does not exist
             /\ io_error = FALSE
             /\ last' = RenameCall(h, new_name, "raised", 1, "FileNotFoundError")
             /\ clean' = FALSE
             /\ UNCHANGED <<dicoms, pc, frame>>
        ELSE IF old_name # new_name /\ new_name \in DOMAIN dicoms
        THEN \* the target is a directory that holds 0.npz: ENOTEMPTY on
             \* POSIX, FileExistsError on Windows
             /\ io_error = FALSE
             /\ last' = RenameCall(h, new_name, "raised", 1, "OSError")
             /\ clean' = FALSE
             /\ UNCHANGED <<dicoms, pc, frame>>
        ELSE IF io_error
        THEN /\ last' = RenameCall(h, new_name, "raised", 1, "PermissionError")
             /\ clean' = FALSE
             /\ UNCHANGED <<dicoms, pc, frame>>
        ELSE /\ last' = RenameCall(h, new_name, "running", 1, "")
             /\ dicoms' = Moved(dicoms, old_name, new_name)
             /\ pc' = "masks"
             /\ frame' = [self |-> h, new_name |-> new_name, todo |-> MaskNames]
             /\ UNCHANGED clean
    /\ UNCHANGED <<platform, files, groups, masks, elName, groups0>>

\* rename, lines 163-166: one iteration of the loop over mask_names(), which
\* iterdir() lists in no particular order
rename_mask_file(mask_name) ==
    /\ pc = "masks"
    /\ mask_name \in frame.todo
    /\ LET old_name == elName[frame.self]
           src == <<mask_name, old_name>>
           dst == <<mask_name, frame.new_name>>
           rest == frame.todo \ {mask_name}
           Continue == /\ frame' = [frame EXCEPT !.todo = rest]
                       /\ pc' = IF rest = {} THEN "manifest" ELSE "masks"
                       /\ UNCHANGED <<last, clean>>
       IN
       \E io_error \in BOOLEAN :
        IF ~mask_file_exists(mask_name, old_name)
        THEN /\ io_error = FALSE
             /\ Continue
             /\ UNCHANGED masks
        ELSE IF src # dst /\ dst \in DOMAIN masks /\ platform = "nt"
        THEN \* Windows refuses to rename onto an existing file
             /\ io_error = FALSE
             /\ Raise(2, "FileExistsError")
             /\ UNCHANGED masks
        ELSE IF io_error
        THEN /\ Raise(2, "PermissionError")
             /\ UNCHANGED masks
        ELSE \* POSIX replaces an existing target file silently
             /\ masks' = Moved(masks, src, dst)
             /\ Continue
    /\ UNCHANGED <<platform, files, groups, dicoms, elName, calls, prev, groups0>>

\* rename, lines 168-171: the manifest is read, edited and written back
rename_dataset_file ==
    /\ pc = "manifest"
    /\ LET old_name == elName[frame.self]
           names == renamed_element_names(files, old_name, frame.new_name)
       IN
       \E io_error \in BOOLEAN :
        IF old_name \notin Range(files)
        THEN \* list.remove(x): x not in list
             /\ io_error = FALSE
             /\ Raise(3, "ValueError")
             /\ UNCHANGED <<files, groups>>
        ELSE IF groups = <<>>
        THEN \* next(iter(groups_dict)) of an empty dict
             /\ io_error = FALSE
             /\ Raise(3, "StopIteration")
             /\ UNCHANGED <<files, groups>>
        ELSE IF io_error
        THEN /\ Raise(3, "PermissionError")
             /\ UNCHANGED <<files, groups>>
        ELSE /\ files' = names
             /\ groups' = set_dataset_file_element_names(groups, names)
             /\ pc' = "name"
             /\ UNCHANGED <<frame, last, clean>>
    /\ UNCHANGED <<platform, dicoms, masks, elName, calls, prev, groups0>>

\* rename, line 173: self.name = new_name
rename_set_name ==
    /\ pc = "name"
    /\ elName' = [elName EXCEPT ![frame.self] = frame.new_name]
    /\ pc' = "idle"
    /\ frame' = NoFrame
    /\ last' = [last EXCEPT !.outcome = "returned", !.step = 4]
    /\ UNCHANGED <<platform, files, groups, dicoms, masks, calls, prev, clean, groups0>>

\* Project.elements(), lines 199-200: the caller takes an element object of
\* a case of the manifest
get_element(h, name) ==
    /\ pc = "idle"
    /\ calls < MaxCalls
    /\ name \in Range(files)
    /\ elName[h] # name
    /\ elName' = [elName EXCEPT ![h] = name]
    /\ calls' = calls + 1
    /\ last' = NoOp
    /\ prev' = NoOp
    /\ UNCHANGED <<platform, files, groups, dicoms, masks, pc, frame, clean, groups0>>

(***************************************************************************)
(* The rename specification: a project of InitCases cases, each with any   *)
(* of its mask archives, and an element object for each of the two first.  *)
(***************************************************************************)
InitRecord(name, fs) == IF name = fs[1] THEN RecPredicted ELSE RecValidated

Init ==
    /\ platform \in Platforms
    /\ files = [i \in 1..InitCases |-> AllNames[i]]
    /\ groups \in {<<files>>, <<files, <<files[1]>>>>}
    /\ dicoms = [n \in Range(files) |-> n]
    /\ \E P \in SUBSET (MaskNames \X Range(files)) :
          masks = [p \in P |-> InitRecord(p[2], files)]
    /\ elName = [h \in Handles |-> files[Min(h, Len(files))]]
    /\ pc = "idle"
    /\ frame = NoFrame
    /\ calls = 0
    /\ last = NoOp
    /\ prev = NoOp
    /\ clean = TRUE
    /\ groups0 = groups

Next ==
    \/ \E h \in Handles, n \in NamePool : rename_image_directory(h, n)
    \/ \E m \in MaskNames : rename_mask_file(m)
    \/ rename_dataset_file
    \/ rename_set_name
    \/ \E h \in Handles, n \in NamePool : get_element(h, n)

Spec == Init /\ [][Next]_vars


(***************************************************************************)
(* Properties of rename.  last.pre is the project as it was when the last  *)
(* rename was called; the effects of its steps are read off the project.   *)
(***************************************************************************)
\* step 1 has taken effect: the image directory is under new, not under old
ImageMoved(pre, old, new) ==
    /\ old \notin DOMAIN dicoms
    /\ new \in DOMAIN dicoms
    /\ dicoms[new] = pre.dicoms[old]

\* step 2 has taken effect: no archive is left under old, and each archive
\* the case had is under new
MasksMoved(pre, old, new) ==
    \A m \in MaskNames :
        /\ <<m, old>> \notin DOMAIN masks
        /\ <<m, old>> \in DOMAIN pre.masks =>
              /\ <<m, new>> \in DOMAIN masks
              /\ masks[<<m, new>>] = pre.masks[<<m, old>>]

\* step 3 has taken effect: the manifest lists new once more and old once less
ManifestRewritten(pre, old, new) ==
    /\ Count(files, new) = Count(pre.files, new) + 1
    /\ Count(files, old) = Count(pre.files, old) - 1
    /\ Len(groups) > 0 /\ Count(groups[1], new) = Count(files, new)

\* C1: rename applies its effects in the order image directory, mask
\* archives, manifest, in-memory name: in every state, also the one a failed
\* step leaves behind, an effect of a later step is visible only if the
\* earlier steps have taken effect in full; the manifest does not gain
\* new_id while the image directory is under old_id, and the element is
\* called new_id only once the manifest lists new_id.
C1_RenameStepOrder ==
    last.op = "rename" =>
        LET pre == last.pre
            old == last.old
            new == last.new
            masksChanged == masks # pre.masks
            manifestChanged == files # pre.files \/ groups # pre.groups
            nameChanged == elName # pre.elName
        IN  IF old = new
            THEN dicoms = pre.dicoms /\ masks = pre.masks /\ elName = pre.elName
            ELSE /\ masksChanged => ImageMoved(pre, old, new)
                 /\ manifestChanged =>
                       ImageMoved(pre, old, new) /\ MasksMoved(pre, old, new)
                 /\ nameChanged =>
                       /\ ImageMoved(pre, old, new) /\ MasksMoved(pre, old, new)
                       /\ ManifestRewritten(pre, old, new)
                       /\ elName = [pre.elName EXCEPT ![last.self] = new]
                 /\ ~(Count(files, new) > Count(pre.files, new) /\ old \in DOMAIN dicoms)
                 /\ elName[last.self] = new => new \in Range(files)

\* a rename that raised while rewriting the manifest: the image directory
\* and a mask archive are under the new name, the manifest and the element
\* still carry the old one
C1_Witness ==
    /\ last.op = "rename" /\ last.outcome = "raised" /\ last.step = 3
    /\ last.old # last.new
    /\ masks # last.pre.masks
    /\ ImageMoved(last.pre, last.old, last.new)
    /\ files = last.pre.files
    /\ elName[last.self] = last.old

\* new_id is carried by nothing in the project s
Unused(s, name) ==
    /\ name \notin DOMAIN s.dicoms
    /\ name \notin Range(s.files)
    /\ \A g \in 1..Len(s.groups) : name \notin Range(s.groups[g])
    /\ \A m \in MaskNames : <<m, name>> \notin DOMAIN s.masks

RenamedThereAndBack ==
    /\ pc = "idle"
    /\ prev.op = "rename" /\ prev.outcome = "returned"
    /\ last.op = "rename" /\ last.outcome = "returned"
    /\ last.self = prev.self
    /\ last.old = prev.new /\ last.new = prev.old
    /\ prev.old \in Range(prev.pre.files) /\ prev.old \in DOMAIN prev.pre.dicoms
    /\ Unused(prev.pre, prev.new)

\* C3: when old_id is an element and new_id is unused, rename(old_id ->
\* new_id) followed by rename(new_id -> old_id) restores the membership of
\* files and of the default group, and the place (and content) of the image
\* directory and of every mask archive.
C3_RenameBackRestores ==
    RenamedThereAndBack =>
        /\ \A x \in NamePool : Count(files, x) = Count(prev.pre.files, x)
        /\ \A x \in NamePool : Count(groups[1], x) = Count(prev.pre.groups[1], x)
        /\ dicoms = prev.pre.dicoms
        /\ masks = prev.pre.masks

\* a case with a mask archive was renamed and renamed back
C3_Witness ==
    /\ RenamedThereAndBack
    /\ \E m \in MaskNames : <<m, last.new>> \in DOMAIN masks
    /\ files # prev.pre.files

\* C5: after a sequence of successful renames the first group is the same
\* list as files, the new identifier is at the end of files and the one it
\* replaced is gone, the other cases of files are kept, and every other
\* group is what it was when the project was opened.
C5_ManifestAfterRenames ==
    (clean /\ last.op = "rename" /\ last.outcome = "returned") =>
        /\ groups[1] = files
        /\ files[Len(files)] = last.new
        /\ last.old # last.new => last.old \notin Range(files)
        /\ Len(files) = Len(last.pre.files)
        /\ \A x \in Range(last.pre.files) \ {last.old} : x \in Range(files)
        /\ SubSeq(groups, 2, Len(groups)) = SubSeq(groups0, 2, Len(groups0))

\* two successful renames in a row, in a project with a second group
C5_Witness ==
    /\ clean /\ pc = "idle"
    /\ last.op = "rename" /\ last.outcome = "returned" /\ last.old # last.new
    /\ prev.op = "rename" /\ prev.outcome = "returned" /\ prev.old # prev.new
    /\ Len(groups) > 1

\* new_id is carried by an image directory, a mask archive or the manifest
Collides(s, name) ==
    \/ name \in DOMAIN s.dicoms
    \/ name \in Range(s.files)
    \/ \E m \in MaskNames : <<m, name>> \in DOMAIN s.masks

\* C6: a rename to a new_id that an existing element carries does not
\* return normally, and what is under new_id (image directory, mask
\* archives, manifest entry) is neither replaced nor duplicated.
C6_CollisionIsConflict ==
    (last.op = "rename" /\ last.old # last.new /\ Collides(last.pre, last.new)) =>
        LET pre == last.pre
            new == last.new
        IN  /\ last.outcome # "returned"
            /\ new \in DOMAIN pre.dicoms =>
                  new \in DOMAIN dicoms /\ dicoms[new] = pre.dicoms[new]
            /\ \A m \in MaskNames :
                  <<m, new>> \in DOMAIN pre.masks =>
                      /\ <<m, new>> \in DOMAIN masks
                      /\ masks[<<m, new>>] = pre.masks[<<m, new>>]
            /\ new \in Range(pre.files) => Count(files, new) = Count(pre.files, new)

\* the last rename repeats, on the same element and with the same new_id,
\* a rename to another name that raised after its step 1
RetryAfterPartialFailure ==
    /\ pc = "idle"
    /\ prev.op = "rename" /\ prev.outcome = "raised" /\ prev.step \in {2, 3}
    /\ prev.old # prev.new
    /\ last.op = "rename"
    /\ last.self = prev.self /\ last.new = prev.new

\* a rename that raised in step 1 has changed nothing
FailedStep1ChangesNothing ==
    (last.op = "rename" /\ last.outcome = "raised" /\ last.step = 1) =>
        Snapshot = last.pre

EmptyDict == [k \in {} |-> 0]

\* ProjectElement.mask_file_path
mask_file_path(h, mask_name) == <<mask_name, elName[h]>>

\* set_predicted_mask, lines 152-155: the dict of the archive, an empty dict
\* when mask_file_data raises FileNotFoundError
mask_file_data_or_empty(path) ==
    IF path \in DOMAIN masks THEN masks[path] ELSE EmptyDict

\* a mutant of with_predicted: the dict written holds the prediction alone
with_predicted_alone(mask_file_data, predicted_mask) ==
    [k \in {"predicted"} |-> astype_uint8(predicted_mask)]

\* set_predicted_mask, line 156: mask_file_data["predicted"] = astype(uint8)
with_predicted(mask_file_data, predicted_mask) ==
    [k \in DOMAIN mask_file_data \cup {"predicted"} |->
        IF k = "predicted" THEN astype_uint8(predicted_mask) ELSE mask_file_data[k]]

\* ProjectElement.set_predicted_mask (set_prediction_mask in src/project.py):
\* np.savez rewrites the whole archive with the merged dict
set_predicted_mask(h, mask_name, predicted_mask) ==
    /\ pc = "idle"
    /\ calls < MaxCalls
    /\ elName[h] # NoName
    /\ LET path == mask_file_path(h, mask_name)
           data == with_predicted(mask_file_data_or_empty(path), predicted_mask)
       IN  /\ masks' = [p \in DOMAIN masks \cup {path} |->
                           IF p = path THEN data ELSE masks[p]]
           /\ last' = [op |-> "set_predicted_mask", path |-> path,
                       written |-> predicted_mask, pre |-> Snapshot]
    /\ calls' = calls + 1
    /\ prev' = NoOp
    /\ UNCHANGED <<platform, files, groups, dicoms, elName, pc, frame, clean, groups0>>

Returned(value) == [raised |-> "", value |-> value]

Raised(exc) == [raised |-> exc, value |-> FALSE]

\* a mutant of is_validated_outcome: KeyError is not caught
is_validated_outcome_keyerror(path) ==
    IF path \notin DOMAIN masks THEN Returned(FALSE)
    ELSE IF "users" \notin DOMAIN masks[path] THEN Raised("KeyError")
    ELSE Returned(Len(masks[path]["users"]) > 0)

\* ProjectElement.is_validated: what it returns or raises for the archive
is_validated_outcome(path) ==
    IF path \notin DOMAIN masks
    THEN Returned(FALSE)                 \* FileNotFoundError, caught
    ELSE LET data == masks[path] IN
         IF "users" \notin DOMAIN data
         THEN Returned(FALSE)            \* KeyError, caught
         ELSE IF ~(Len(data["users"]) > 0)
         THEN Returned(FALSE)
         \* result is True: the assert reads current, then validated
         ELSE IF "current" \notin DOMAIN data THEN Raised("KeyError")
         ELSE IF data["current"] = EmptyShape THEN Returned(TRUE)
         ELSE IF "validated" \notin DOMAIN data THEN Raised("KeyError")
         ELSE IF array_equal(data["validated"], data["current"]) THEN Returned(TRUE)
         ELSE Raised("AssertionError")

is_validated(h, mask_name) ==
    /\ pc = "idle"
    /\ calls < MaxCalls
    /\ elName[h] # NoName
    /\ LET path == mask_file_path(h, mask_name)
           out == is_validated_outcome(path)
       IN  last' = [op |-> "is_validated", path |-> path,
                    raised |-> out.raised, value |-> out.value]
    /\ calls' = calls + 1
    /\ prev' = NoOp
    /\ UNCHANGED <<platform, files, groups, dicoms, masks, elName, pc, frame,
                   clean, groups0>>

(***************************************************************************)
(* The mask specification: one case whose first mask archive is absent or  *)
(* holds any record, written by set_predicted_mask and read by             *)
(* is_validated.                                                           *)
(***************************************************************************)
InitMask ==
    /\ platform = "posix"
    /\ files = <<AllNames[1]>>
    /\ groups = <<files>>
    /\ dicoms = [n \in Range(files) |-> n]
    /\ \E r \in Opt(AllRecords) :
          masks = [p \in {<<"muscle", files[1]>> : x \in r} |-> The(r)]
    /\ elName = [h \in Handles |-> files[1]]
    /\ pc = "idle"
    /\ frame = NoFrame
    /\ calls = 0
    /\ last = NoOp
    /\ prev = NoOp
    /\ clean = TRUE
    /\ groups0 = groups

NextMask ==
    \/ \E h \in Handles, m \in MaskNames, x \in WrittenMatrices :
          set_predicted_mask(h, m, x)
    \/ \E h \in Handles, m \in MaskNames : is_validated(h, m)

SpecMask == InitMask /\ [][NextMask]_vars

C8_ValidatedIffMatrix ==
    (last.op = "is_validated" /\ last.raised = "") =>
        (last.value = TRUE <=>
            /\ last.path \in DOMAIN masks
            /\ "validated" \in DOMAIN masks[last.path])

list_elements ==
    /\ pc = "idle"
    /\ calls < MaxCalls
    /\ last' = [op |-> "elements", result |-> elements(files)]
    /\ calls' = calls + 1
    /\ prev' = NoOp
    /\ UNCHANGED <<platform, files, groups, dicoms, masks, elName, pc, frame,
                   clean, groups0>>

InitSort ==
    /\ platform = "posix"
    /\ files \in UNION {SeqsNoDup(SortPool, k) : k \in 0..MaxFiles}
    /\ groups = <<files>>
    /\ dicoms = [n \in Range(files) |-> n]
    /\ masks = EmptyDict
    /\ elName = [h \in Handles |-> NoName]
    /\ pc = "idle"
    /\ frame = NoFrame
    /\ calls = 0
    /\ last = NoOp
    /\ prev = NoOp
    /\ clean = TRUE
    /\ groups0 = groups

NextSort == list_elements

SpecSort == InitSort /\ [][NextSort]_vars

\* the order the claim states: by the length of the name-prefix, then by the
\* name-prefix
PrefixBefore(a, b) ==
    LET pa == name_prefix(a)
        pb == name_prefix(b)
    IN  \/ Len(pa) < Len(pb)
        \/ Len(pa) = Len(pb) /\ StrLess(pa, pb)

ExampleFiles == <<AllNames[1], AllNames[2], AllNames[3]>>

ExampleElements == << <<"3">>, <<"5", "_", "_", "_", "a">>,
                      <<"1", "2", "_", "_", "_", "b">> >>

\* C4: elements() returns one element per identifier of files, none dropped
\* and none duplicated, in ascending order of (length of the name-prefix,
\* name-prefix); '5___a', '12___b', '3' come out as '3', '5___a', '12___b'.
C4_ElementsSorted ==
    last.op = "elements" =>
        LET r == last.result IN
        /\ Len(r) = Len(files)
        /\ \A x \in SortPool : Count(r, x) = Count(files, x)
        /\ \A i, j \in 1..Len(r) : i < j => ~PrefixBefore(r[j], r[i])
        /\ files = ExampleFiles => r = ExampleElements

\* elements() was called on the manifest '5___a', '12___b', '3'
C4_Witness ==
    /\ last.op = "elements"
    /\ files = ExampleFiles
    /\ last.result = ExampleElements
    /\ last.result # files

(***************************************************************************)
(* The prediction run: compute_mask_predictions_from_ml_model (ml.py) and  *)
(* Project.add_ml_predictions (src/project.py).  The predictor is external:*)
(* it raises, or returns a list of masks of any length.                    *)
(***************************************************************************)
PredictorMasks == {Zeros, Ones}

PredictorResults(n) ==
    {[raised |-> TRUE, masks |-> <<>>]} \cup
    {[raised |-> FALSE, masks |-> ms] : ms \in UNION {[1..k -> PredictorMasks] : k \in 0..(n + 1)}}

\* zip(elements, predicted_masks): the pairs up to the shorter of the two
ZipLen(elems, predicted_masks) == Min(Len(elems), Len(predicted_masks))

compute_mask_predictions_from_ml_model(mask_name, predictor) ==
    /\ pc = "idle"
    /\ calls < MaxRuns
    /\ LET elems == elements(files)
           n == ZipLen(elems, predictor.masks)
           Written(name) == {i \in 1..n : elems[i] = name}
           LastWritten(name) == CHOOSE i \in Written(name) : \A j \in Written(name) : j <= i
           Done(exc) == last' = [op |-> "predict", mask_name |-> mask_name,
                                 elems |-> elems, predictor |-> predictor,
                                 raised |-> exc, pre |-> Snapshot]
       IN
       IF \E i \in 1..Len(elems) : elems[i] \notin DOMAIN dicoms
       THEN \* element.image() of a case without image directory
            /\ Done("FileNotFoundError")
            /\ UNCHANGED masks
       ELSE IF predictor.raised
       THEN \* the exception of the predictor leaves the function
            /\ Done("PredictorError")
            /\ UNCHANGED masks
       ELSE /\ Done("")
            /\ masks' =
                  [p \in DOMAIN masks \cup {<<mask_name, elems[i]>> : i \in 1..n} |->
                      IF p[1] = mask_name /\ Written(p[2]) # {}
                      THEN with_predicted(mask_file_data_or_empty(p),
                                          predictor.masks[LastWritten(p[2])])
                      ELSE masks[p]]
    /\ calls' = calls + 1
    /\ prev' = NoOp
    /\ UNCHANGED <<platform, files, groups, dicoms, elName, pc, frame, clean, groups0>>

InitPredict ==
    /\ platform = "posix"
    /\ files \in UNION {SeqsNoDup(NamePool, k) : k \in 0..InitCases}
    /\ groups = <<files>>
    /\ dicoms = [n \in Range(files) |-> n]
    /\ \E P \in SUBSET ({"muscle"} \X Range(files)) :
          masks = [p \in P |-> RecValidated]
    /\ elName = [h \in Handles |-> NoName]
    /\ pc = "idle"
    /\ frame = NoFrame
    /\ calls = 0
    /\ last = NoOp
    /\ prev = NoOp
    /\ clean = TRUE
    /\ groups0 = groups

NextPredict ==
    \E m \in MaskNames, r \in PredictorResults(Len(files)) :
        compute_mask_predictions_from_ml_model(m, r)

SpecPredict == InitPredict /\ [][NextPredict]_vars

\* C10: a prediction run writes the i-th mask of the predictor into the
\* predicted field of the i-th element in display order; when the predictor
\* raises or returns another number of masks than there are elements, the
\* run raises and no archive has changed.
C10_RunIsAllOrNothing ==
    last.op = "predict" =>
        LET elems == last.elems
            preds == last.predictor.masks
        IN  IF last.predictor.raised \/ Len(preds) # Len(elems)
            THEN last.raised # "" /\ masks = last.pre.masks
            ELSE /\ last.raised = ""
                 /\ \A i \in 1..Len(elems) :
                       /\ <<last.mask_name, elems[i]>> \in DOMAIN masks
                       /\ masks[<<last.mask_name, elems[i]>>]["predicted"] = preds[i]


(***************************************************************************)
(* The measurement report: write_measurement_csv_for_bmsegmenter_project   *)
(* (src/surfaces.py).  In this specification data/dicoms/<case>/0.npz is   *)
(* modelled by its content: the HU matrix and the pixel spacing in mm.     *)
(* Areas and means are kept in thousandths, the unit round(x, 3) reports.  *)
(***************************************************************************)
\* the bounds of the fixed range of the IMAT mask
ImatMin == -190

ImatMax == -31

HUValues == {-100, 10, 50}

Images == [1..MatrixSize -> HUValues]

Spacings == {<<2, 1>>, <<1, 1>>}

HURanges == {<<0, 20>>, <<-200, 100>>}

\* ndarray.astype(bool) of a mask: the pixels whose value is not 0
astype_bool(mask) == {i \in DOMAIN mask : mask[i] # 0}

\* (image >= lo) & (image <= hi) & project_mask
mask_in_range(image, lo, hi, project_mask) ==
    {i \in project_mask : image[i] >= lo /\ image[i] <= hi}

RECURSIVE SumOver(_, _)
SumOver(image, pixels) ==
    IF pixels = {} THEN 0
    ELSE LET i == CHOOSE x \in pixels : TRUE
         IN  image[i] + SumOver(image, pixels \ {i})

\* a cell of the report: a number in thousandths, or a text
Number(n) == [kind |-> "number", thousandths |-> n]

Text(t) == [kind |-> t, thousandths |-> 0]

\* round(n / d, 3) in thousandths, ties to the even neighbour
RoundedThousandths(n, d) ==
    LET q == (1000 * n) \div d
        r == (1000 * n) % d
    IN  IF 2 * r < d THEN q
        ELSE IF 2 * r > d THEN q + 1
        ELSE IF q % 2 = 0 THEN q ELSE q + 1

\* round(mask.sum() * pixel_area_cm2, 3) with pixel_area_cm2 = dx * dy / 100
area_cell(pixels, spacing) ==
    Number(Cardinality(pixels) * spacing[1] * spacing[2] * 10)

\* round(image[mask].mean(), 3): the mean of an empty selection is nan, and
\* round(nan, 3) is nan, which csv writes as "nan"
mean_cell(image, pixels) ==
    IF pixels = {} THEN Text("nan")
    ELSE Number(RoundedThousandths(SumOver(image, pixels), Cardinality(pixels)))

\* lines 28-59: the row of a case is_validated reports as validated, or the
\* exception reading its validated mask raises
measured_row(name, mask_name, lo, hi) ==
    LET data == masks[<<mask_name, name>>]
        image == dicoms[name].matrix
        spacing == dicoms[name].spacing
    IN  IF "validated" \notin DOMAIN data
        THEN [raised |-> "KeyError", cells |-> <<>>]
        ELSE LET project_mask == astype_bool(data["validated"])
                 restricted == mask_in_range(image, lo, hi, project_mask)
                 imat == mask_in_range(image, ImatMin, ImatMax, project_mask)
             IN  [raised |-> "",
                  cells |-> [name |-> name_prefix(name),
                             area_full |-> area_cell(project_mask, spacing),
                             area_restricted |-> area_cell(restricted, spacing),
                             mean_full |-> mean_cell(image, project_mask),
                             mean_restricted |-> mean_cell(image, restricted),
                             imat |-> area_cell(imat, spacing)]]

\* line 26: the row of a case that is not validated
unmeasured_row(name) ==
    [name |-> name_prefix(name),
     area_full |-> Text("N/A"), area_restricted |-> Text("N/A"),
     mean_full |-> Text("N/A"), mean_restricted |-> Text("N/A"),
     imat |-> Text("N/A")]

\* lines 23-59: the rows written for the elements elems, in order, and the
\* exception that ended the loop, if any
RECURSIVE report_rows(_, _, _, _, _)
report_rows(elems, mask_name, lo, hi, rows) ==
    IF elems = <<>> THEN [raised |-> "", rows |-> rows]
    ELSE LET name == Head(elems)
             validated == is_validated_outcome(<<mask_name, name>>)
         IN  IF validated.raised # ""
             THEN [raised |-> validated.raised, rows |-> rows]
             ELSE IF ~validated.value
             THEN report_rows(Tail(elems), mask_name, lo, hi,
                              Append(rows, unmeasured_row(name)))
             ELSE LET row == measured_row(name, mask_name, lo, hi)
                  IN  IF row.raised # ""
                      THEN [raised |-> row.raised, rows |-> rows]
                      ELSE report_rows(Tail(elems), mask_name, lo, hi,
                                       Append(rows, row.cells))

write_measurement_csv_for_bmsegmenter_project(mask_name, range) ==
    /\ pc = "idle"
    /\ calls < MaxRuns
    /\ LET elems == elements(files)
           out == report_rows(elems, mask_name, range[1], range[2], <<>>)
       IN  last' = [op |-> "report", mask_name |-> mask_name, range |-> range,
                    elems |-> elems, rows |-> out.rows, raised |-> out.raised]
    /\ calls' = calls + 1
    /\ prev' = NoOp
    /\ UNCHANGED <<platform, files, groups, dicoms, masks, elName, pc, frame,
                   clean, groups0>>

\* a project of one case with any archive for the first mask, possibly
\* next to a case without archive
InitReport ==
    /\ platform = "posix"
    /\ files \in {<<AllNames[1]>>, <<AllNames[2], AllNames[1]>>}
    /\ groups = <<files>>
    /\ dicoms \in [Range(files) -> [matrix : Images, spacing : Spacings]]
    /\ \E r \in Opt(AllRecords) :
          masks = [p \in {<<"muscle", AllNames[1]>> : x \in r} |-> The(r)]
    /\ elName = [h \in Handles |-> NoName]
    /\ pc = "idle"
    /\ frame = NoFrame
    /\ calls = 0
    /\ last = NoOp
    /\ prev = NoOp
    /\ clean = TRUE
    /\ groups0 = groups

NextReport ==
    \E m \in MaskNames, range \in HURanges :
        write_measurement_csv_for_bmsegmenter_project(m, range)

SpecReport == InitReport /\ [][NextReport]_vars

\* the pixels the validated mask of the case of row i selects, and those of
\* them in the restricted range
SelectedOfRow(i) ==
    astype_bool(masks[<<last.mask_name, last.elems[i]>>]["validated"])

RestrictedOfRow(i) ==
    {p \in SelectedOfRow(i) :
        /\ dicoms[last.elems[i]].matrix[p] >= last.range[1]
        /\ dicoms[last.elems[i]].matrix[p] <= last.range[2]}

\* C11: in the row of a validated case whose validated mask selects no
\* pixel the full mean is 'N/A', not nan, and the full area is 0; likewise
\* for the restricted mask, the restricted mean and the restricted area.
C11_EmptyMeanIsNA ==
    last.op = "report" =>
        \A i \in 1..Len(last.rows) :
            last.rows[i].area_full.kind = "number" =>
                /\ SelectedOfRow(i) = {} =>
                      /\ last.rows[i].mean_full.kind = "N/A"
                      /\ last.rows[i].area_full.thousandths = 0
                /\ RestrictedOfRow(i) = {} =>
                      /\ last.rows[i].mean_restricted.kind = "N/A"
                      /\ last.rows[i].area_restricted.thousandths = 0

====
